---- MODULE Spec2Model ----
(***************************************************************************)
(* react-collectable: the collection protocol of src/index.js.             *)
(*                                                                         *)
(* SpecContext: a collection Context (the spec's "Scope") with the         *)
(*   CollectableSource instances that mount into it and unmount from it.   *)
(* SpecMap: the Map aggregator, its Parameter refs, the child Contexts it  *)
(*   keeps on record and its collections in flight.                        *)
(* SpecStatus, SpecDebouncer, SpecPreview: the decorators around one       *)
(*   sub-context.                                                          *)
(* SpecPrevalidator, SpecRoot, SpecOldMap: Prevalidator, Root and Map of   *)
(*   the earlier library, src/unnamed/part_000.                            *)
(*                                                                         *)
(* JavaScript runs one task at a time and empties the promise job queue    *)
(* before the next task: every action is one task (a lifecycle hook, a ref *)
(* callback, a call of collect(), the environment settling a promise)      *)
(* together with the promise reactions that task makes runnable.           *)
(***************************************************************************)
EXTENDS Integers, Sequences, FiniteSets, TLC

\* ------------------------------------------------------------- bounds
NumContexts == 1    \* Context instances of SpecContext
NumSources == 2     \* CollectableSource instances that may mount per Context
NumParams == 2      \* Parameter instances of the Map (each renders one Context)
MaxPromises == 1    \* promises the sources of SpecContext hand out
MaxCollects == 1    \* calls of Map._collectValue

\* `null` (this._currentSource, refNode) and "no promise"
Null == 0

Contexts == 1..NumContexts
Sources == 1..NumSources
Params == 1..NumParams
Names == {"a", "b"}
\* what the asynchronous computation of source n resolves with, or rejects with
ValueOf(n) == <<"v1", "v2", "v3", "v4", "v5">>[n]
ErrorOf(n) == <<"e1", "e2", "e3", "e4", "e5">>[n]
\* what the promise a filter returned resolves with, or rejects with
FilterValue == "w"
FilterReason == "F"

\* ------------------------------------------------------------- values
\* JavaScript values that travel through promises, in one record shape.
\* A map (Object.create(null)) is a function on Names with Absent for a key
\* that is not present.
Absent == "-"
EmptyMap == [n \in Names |-> Absent]
Keys(m) == {n \in Names : m[n] # Absent}

NullValue == [kind |-> "null", atom |-> Absent, values |-> EmptyMap, errors |-> EmptyMap]
Undefined == [kind |-> "undefined", atom |-> Absent, values |-> EmptyMap, errors |-> EmptyMap]
AtomVal(a) == [kind |-> "atom", atom |-> a, values |-> EmptyMap, errors |-> EmptyMap]
MapVal(m) == [kind |-> "map", atom |-> Absent, values |-> m, errors |-> EmptyMap]
ErrorVal(msg) == [kind |-> "Error", atom |-> msg, values |-> EmptyMap, errors |-> EmptyMap]

\* new MapError(resultMap, errorMap)
MapError(resultMap, errorMap) ==
    [kind |-> "MapError", atom |-> "Input error", values |-> resultMap, errors |-> errorMap]

\* the messages of the errors the code throws
NoError == ""
ErrMoreThanOne == "cannot have more than one source in one collection context"
ErrUnrecognized == "unrecognized source cannot be unregistered"
ErrNoSource == "no source to collect from"
ErrDuplicate == "duplicate parameter name"
ErrFilterType == "filter should be a function"
ErrNotCollectable == "instance not collectable"
ErrAlreadyResolved == "already resolved"
ErrAlreadySubmitted == "already submitted"

VARIABLES
    currentSource,  \* Context._currentSource, per Context: a source or Null
    mounted,        \* the CollectableSource instances whose componentDidMount has run
    promises,       \* the promises created so far: [state, value, src]
    last,           \* SpecContext: the latest Context operation and its outcome
    before,         \* SpecContext: the Context operation before that
    nodeMap,        \* Map._nodeMap: the entries <<name, node>> in key order
    refNode,        \* per Parameter: refNode of its current ref callback
    paramName,      \* per Parameter: props.name of its current ref callback, or Absent
    collections,    \* the calls of Map._collectValue so far
    mapLast,        \* SpecMap: the latest Map operation and its outcome
    subCollects,    \* the calls a decorator made of its sub-context's collect()
    currentTimeoutId,   \* Debouncer.state.currentTimeoutId: a timer id or Null
    debounces,      \* the calls of Debouncer._collectValue so far, one timer each
    currentCollection,  \* Status.state.currentCollection: a promise or Null
    inputError,     \* Status.state.inputError: a value, NullValue at first
    statusLast,     \* SpecStatus: the latest Status operation and its outcome
    pvNode,         \* Prevalidator._node: the child the ref gave, collectable or not
    currentValueBase,   \* Prevalidator._currentValueBase: a token, NullToken at first
    currentValue,   \* Prevalidator._currentValue: a promise
    isValid,        \* Prevalidator.state.isValid
    pvLast,         \* SpecPrevalidator: the latest Prevalidator operation
    previewCurrent, \* Preview.state.currentCollection: a caught collection or Null
    lastValue,      \* Preview.state.lastValue: a value, NullValue at first
    attempts,       \* the calls of Preview._intercept: their caught collections
    previewLast,    \* SpecPreview: the latest Preview operation and its outcome
    contentsNode,   \* Root._contentsNode: the child the ref gave
    rootCurrent,    \* Root._currentCollection: a promise or Null
    isResolved,     \* Root._isResolved
    rootLast        \* SpecRoot: the latest Root operation and its outcome

debouncerVars == <<currentTimeoutId, debounces>>
statusVars == <<currentCollection, inputError, statusLast>>
prevalidatorVars == <<pvNode, currentValueBase, currentValue, isValid, pvLast>>
previewVars == <<previewCurrent, lastValue, attempts, previewLast>>
rootVars == <<contentsNode, rootCurrent, isResolved, rootLast>>
laterVars == <<previewVars, rootVars>>
decoratorVars == <<subCollects, debouncerVars, statusVars, prevalidatorVars, laterVars>>

vars == <<currentSource, mounted, promises, last, before,
          nodeMap, refNode, paramName, collections, mapLast, decoratorVars>>

ctxVars == <<currentSource, mounted, promises, last, before>>
mapOnlyVars == <<nodeMap, refNode, paramName, collections, mapLast>>

\* ------------------------------------------------------------ promises
Pending(src) == [state |-> "pending", value |-> Undefined, src |-> src]
IsSettled(p) == p.state # "pending"

\* ------------------------------------------------------------- Context
\* Context._registerCurrentSource: the slot after the call and what it threw
registerCurrentSource_overwrite(slot, source) ==
    [threw |-> NoError, slot |-> source]

registerCurrentSource(slot, source) ==
    IF slot # Null
    THEN [threw |-> ErrMoreThanOne, slot |-> slot]
    ELSE [threw |-> NoError, slot |-> source]

\* Context._unregisterCurrentSource
unregisterCurrentSource_clears(slot, source) ==
    [threw |-> NoError, slot |-> Null]

unregisterCurrentSource(slot, source) ==
    IF slot # source
    THEN [threw |-> ErrUnrecognized, slot |-> slot]
    ELSE [threw |-> NoError, slot |-> Null]

\* CollectableSource._collect: this.props.value(), here a source that starts
\* an asynchronous computation and returns its promise
SourceCollect(source, heap) ==
    [threw |-> NoError, ret |-> Len(heap) + 1, made |-> Len(heap) + 1,
     heap |-> Append(heap, Pending(source))]

\* Context.collect: what it threw, the promise it returned (ret), the promise
\* the source's function returned (made), and the promises afterwards
ContextCollect_wrapped(slot, heap) ==
    IF slot = Null
    THEN [threw |-> ErrNoSource, ret |-> Null, made |-> Null, heap |-> heap]
    ELSE LET r == SourceCollect(slot, heap)
         IN  [r EXCEPT !.ret = Len(r.heap) + 1, !.heap = Append(r.heap, Pending(Null))]

ContextCollect(slot, heap) ==
    IF slot = Null
    THEN [threw |-> ErrNoSource, ret |-> Null, made |-> Null, heap |-> heap]
    ELSE SourceCollect(slot, heap)

NoOp == [op |-> "none", ctx |-> Null, src |-> Null, pre |-> Null,
         threw |-> NoError, ret |-> Null, made |-> Null]

NoStatusOp == [op |-> "none", p |-> Null, threw |-> NoError, ret |-> Null,
               preCollection |-> Null, preError |-> NullValue]

\* tokens are compared with ===; null is the token that always updates
NullToken == "null"
Tokens == {"x", "y"}

\* The promise the constructor makes, Promise.reject(): rejected with
\* undefined from the start and never settled again, so it is kept apart
\* from the promises that the computations settle, under an id of its own.
Placeholder == 0 - 1
PlaceholderPromise == [state |-> "rejected", value |-> Undefined, src |-> Null]
PromiseAt(heap, p) == IF p = Placeholder THEN PlaceholderPromise ELSE heap[p]

NoPvOp == [op |-> "none", arg |-> NullToken, threw |-> NoError, ret |-> Null,
           steps |-> <<>>, p |-> Null,
           pre |-> [currentValueBase |-> NullToken, currentValue |-> Placeholder,
                    isValid |-> FALSE],
           preCalls |-> 0]

NoRootOp == [op |-> "none", p |-> Null, threw |-> NoError, ret |-> Null,
             preCurrent |-> Null, preResolved |-> FALSE, preCalls |-> 0]

NoPreviewOp == [op |-> "none", p |-> Null, threw |-> NoError, ret |-> Null,
                attempt |-> Null, fallback |-> "none",
                preCurrent |-> Null, preLast |-> NullValue]

NoMapOp == [op |-> "none", name |-> Absent, node |-> Null, pre |-> Null, threw |-> NoError]

\* what `before` keeps of an operation
Brief(l) == [op |-> l.op, ctx |-> l.ctx, src |-> l.src, threw |-> l.threw]

\* CollectableSource.componentDidMount
SourceMount(c, s) ==
    /\ ~mounted[c][s]
    /\ LET r == registerCurrentSource(currentSource[c], s)
       IN  /\ currentSource' = [currentSource EXCEPT ![c] = r.slot]
           /\ last' = [NoOp EXCEPT !.op = "register", !.ctx = c, !.src = s,
                                   !.pre = currentSource[c], !.threw = r.threw]
    /\ mounted' = [mounted EXCEPT ![c][s] = TRUE]
    /\ before' = Brief(last)
    /\ UNCHANGED <<promises, mapOnlyVars, decoratorVars>>

\* CollectableSource.componentWillUnmount
SourceUnmount(c, s) ==
    /\ mounted[c][s]
    /\ LET r == unregisterCurrentSource(currentSource[c], s)
       IN  /\ currentSource' = [currentSource EXCEPT ![c] = r.slot]
           /\ last' = [NoOp EXCEPT !.op = "unregister", !.ctx = c, !.src = s,
                                   !.pre = currentSource[c], !.threw = r.threw]
    /\ mounted' = [mounted EXCEPT ![c][s] = FALSE]
    /\ before' = Brief(last)
    /\ UNCHANGED <<promises, mapOnlyVars, decoratorVars>>

\* a caller invokes Context.collect()
Collect(c) ==
    /\ Len(promises) < MaxPromises
    /\ LET r == ContextCollect(currentSource[c], promises)
       IN  /\ promises' = r.heap
           /\ last' = [NoOp EXCEPT !.op = "collect", !.ctx = c, !.src = currentSource[c],
                                   !.pre = currentSource[c], !.threw = r.threw,
                                   !.ret = r.ret, !.made = r.made]
    /\ before' = Brief(last)
    /\ UNCHANGED <<currentSource, mounted, mapOnlyVars, decoratorVars>>

\* what a promise is settled with: by its source, or by the filter that returned it
Outcome(p, state) ==
    IF promises[p].src # Null
    THEN AtomVal(IF state = "fulfilled" THEN ValueOf(promises[p].src)
                                        ELSE ErrorOf(promises[p].src))
    ELSE IF state = "fulfilled" THEN AtomVal(FilterValue) ELSE ErrorVal(FilterReason)

\* the asynchronous computation of a source ends: its promise is fulfilled
\* with a value or rejected with an error
SettleSource(p, state) ==
    /\ p \in DOMAIN promises
    /\ promises[p].state = "pending"
    /\ promises[p].src # Null
    /\ promises' = [promises EXCEPT ![p].state = state, ![p].value = Outcome(p, state)]
    /\ UNCHANGED <<currentSource, mounted, last, before, mapOnlyVars, decoratorVars>>

InitDebouncerIdle ==
    /\ currentTimeoutId = Null
    /\ debounces = <<>>

InitStatusIdle ==
    /\ currentCollection = Null
    /\ inputError = NullValue
    /\ statusLast = NoStatusOp

InitPrevalidatorIdle ==
    /\ pvNode = Null
    /\ currentValueBase = NullToken
    /\ currentValue = Placeholder
    /\ isValid = FALSE
    /\ pvLast = NoPvOp

InitPreviewIdle ==
    /\ previewCurrent = Null
    /\ lastValue = NullValue
    /\ attempts = <<>>
    /\ previewLast = NoPreviewOp

InitRootIdle ==
    /\ contentsNode = Null
    /\ rootCurrent = Null
    /\ isResolved = FALSE
    /\ rootLast = NoRootOp

InitLaterIdle ==
    /\ InitPreviewIdle
    /\ InitRootIdle

InitDecoratorsIdle ==
    /\ subCollects = <<>>
    /\ InitDebouncerIdle
    /\ InitStatusIdle
    /\ InitPrevalidatorIdle
    /\ InitLaterIdle

InitMapRegistryIdle ==
    /\ nodeMap = <<>>
    /\ refNode = [p \in Params |-> Null]
    /\ paramName = [p \in Params |-> Absent]
    /\ collections = <<>>
    /\ mapLast = NoMapOp

InitMapIdle ==
    /\ InitDecoratorsIdle
    /\ InitMapRegistryIdle

InitContext ==
    /\ currentSource = [c \in Contexts |-> Null]
    /\ mounted = [c \in Contexts |-> [s \in Sources |-> FALSE]]
    /\ promises = <<>>
    /\ last = NoOp
    /\ before = Brief(NoOp)
    /\ InitMapIdle

NextContext ==
    \/ \E c \in Contexts, s \in Sources : SourceMount(c, s)
    \/ \E c \in Contexts, s \in Sources : SourceUnmount(c, s)
    \/ \E c \in Contexts : Collect(c)
    \/ \E p \in 1..MaxPromises : SettleSource(p, "fulfilled")
    \/ \E p \in 1..MaxPromises : SettleSource(p, "rejected")

SpecContext == InitContext /\ [][NextContext]_vars

\* ----------------------------------------------------------------- Map
\* Object.prototype.hasOwnProperty.call(this._nodeMap, name)
HasName(map, name) == \E i \in 1..Len(map) : map[i].name = name

\* this._nodeMap[name], Null where the key is not present
Lookup(map, name) ==
    IF HasName(map, name)
    THEN (CHOOSE e \in {map[i] : i \in 1..Len(map)} : e.name = name).node
    ELSE Null

\* delete this._nodeMap[name]
Delete(map, name) == SelectSeq(map, LAMBDA e : e.name # name)

\* Object.keys(this._nodeMap)
ObjectKeys(map) == [i \in 1..Len(map) |-> map[i].name]

\* setNode: the map after the call and what it threw
setNode_overwrite(map, name, node) ==
    [threw |-> NoError,
     map |-> IF HasName(map, name)
             THEN [i \in 1..Len(map) |->
                      IF map[i].name = name THEN [name |-> name, node |-> node] ELSE map[i]]
             ELSE Append(map, [name |-> name, node |-> node])]

setNode(map, name, node) ==
    IF HasName(map, name)
    THEN [threw |-> ErrDuplicate, map |-> map]
    ELSE [threw |-> NoError, map |-> Append(map, [name |-> name, node |-> node])]

\* unsetNode: the map after the call
unsetNode_always(map, name, node) == Delete(map, name)

unsetNode(map, name, node) ==
    IF HasName(map, name) /\ Lookup(map, name) = node
    THEN Delete(map, name)
    ELSE map

\* The ref callback of a Parameter called with its Context node: React
\* attaches the ref of the closure that Parameter(props) just created, whose
\* refNode is null. The node of Parameter p is Context p.
RefAttach(p, name) ==
    /\ paramName[p] = Absent
    /\ LET r == setNode(nodeMap, name, p)
       IN  /\ nodeMap' = r.map
           /\ refNode' = [refNode EXCEPT ![p] = IF r.threw = NoError THEN p ELSE @]
           /\ mapLast' = [op |-> "attach", name |-> name, node |-> p,
                          pre |-> Lookup(nodeMap, name), threw |-> r.threw]
    /\ paramName' = [paramName EXCEPT ![p] = name]
    /\ UNCHANGED <<ctxVars, collections, decoratorVars>>

\* The ref callback of a Parameter called with null: React detaches the ref
\* on unmount, and before it attaches the closure of a new render.
RefDetach(p) ==
    /\ paramName[p] # Absent
    /\ nodeMap' = unsetNode(nodeMap, paramName[p], refNode[p])
    /\ refNode' = [refNode EXCEPT ![p] = Null]
    /\ mapLast' = [op |-> "detach", name |-> paramName[p], node |-> refNode[p],
                   pre |-> Lookup(nodeMap, paramName[p]), threw |-> NoError]
    /\ paramName' = [paramName EXCEPT ![p] = Absent]
    /\ UNCHANGED <<ctxVars, collections, decoratorVars>>

\* The CollectableSource inside the Context of Parameter n mounts and
\* unmounts (source instance n).
ChildSourceMount(n) ==
    /\ currentSource[n] = Null
    /\ currentSource' = [currentSource EXCEPT ![n] = registerCurrentSource(@, n).slot]
    /\ UNCHANGED <<mounted, promises, last, before, mapOnlyVars, decoratorVars>>

ChildSourceUnmount(n) ==
    /\ currentSource[n] = n
    /\ currentSource' = [currentSource EXCEPT ![n] = unregisterCurrentSource(@, n).slot]
    /\ UNCHANGED <<mounted, promises, last, before, mapOnlyVars, decoratorVars>>

\* ---- Map._collectValue
\* props.filter: absent ("none"), not a function ("notfn"), or a function that
\* returns a value ("sync"), throws F ("throws") or returns a promise
\* ("promise")
FilterModes == {"none", "notfn", "sync", "throws", "promise"}
FilterError == ErrorVal("F")
Filtered(m) == [kind |-> "filtered", atom |-> Absent, values |-> m, errors |-> EmptyMap]

\* result => [ result, true ], error => [ error, false ]: the promise that
\* .then() returns for a child's promise
TagOutcome(p) ==
    CASE p.state = "fulfilled" -> [state |-> "fulfilled", result |-> p.value, ok |-> TRUE]
      [] p.state = "rejected" -> [state |-> "fulfilled", result |-> p.value, ok |-> FALSE]
      [] OTHER -> [state |-> "pending", result |-> Undefined, ok |-> FALSE]

\* Promise.all: rejected as soon as an input is rejected, fulfilled with the
\* list of values once every input is fulfilled
PromiseAll(list) ==
    IF \E i \in 1..Len(list) : list[i].state = "rejected"
    THEN [state |-> "rejected", list |-> list,
          reason |-> list[CHOOSE i \in 1..Len(list) : list[i].state = "rejected"].result]
    ELSE IF \A i \in 1..Len(list) : list[i].state = "fulfilled"
    THEN [state |-> "fulfilled", list |-> list, reason |-> Undefined]
    ELSE [state |-> "pending", list |-> list, reason |-> Undefined]

\* the maps the fan-in callback fills from nameList and valueList
BuildMap(nameList, valueList, ok) ==
    [n \in Names |->
        IF \E i \in 1..Len(nameList) : nameList[i] = n /\ valueList[i].ok = ok
        THEN valueList[CHOOSE i \in 1..Len(nameList) :
                           nameList[i] = n /\ valueList[i].ok = ok].result.atom
        ELSE Absent]

\* filter(resultMap)
ApplyFilter_skipped(filter, resultMap) ==
    [kind |-> "return", value |-> MapVal(resultMap)]

ApplyFilter(filter, resultMap) ==
    CASE filter = "none" -> [kind |-> "return", value |-> MapVal(resultMap)]
      [] filter = "sync" -> [kind |-> "return", value |-> Filtered(resultMap)]
      [] filter = "throws" -> [kind |-> "throw", value |-> FilterError]
      [] OTHER -> [kind |-> "promise", value |-> Undefined]

\* the callback given to Promise.all(valuePromiseList).then: what it returns
\* or throws, and whether and with what it called the filter
ThenCallback_live(nameList, valueList, filter) ==
    LET live == {n \in Names : HasName(nodeMap, n)}
        resultMap == [n \in Names |->
                         IF n \in live THEN BuildMap(nameList, valueList, TRUE)[n] ELSE Absent]
        errorMap == [n \in Names |->
                        IF n \in live THEN BuildMap(nameList, valueList, FALSE)[n] ELSE Absent]
    IN  IF Keys(errorMap) # {}
        THEN [kind |-> "throw", value |-> MapError(resultMap, errorMap),
              called |-> FALSE, arg |-> EmptyMap]
        ELSE ApplyFilter(filter, resultMap) @@ [called |-> TRUE, arg |-> resultMap]

ThenCallback_wrapsFilterError(nameList, valueList, filter) ==
    LET resultMap == BuildMap(nameList, valueList, TRUE)
        errorMap == BuildMap(nameList, valueList, FALSE)
        r == ApplyFilter(filter, resultMap)
    IN  IF Keys(errorMap) # {}
        THEN [kind |-> "throw", value |-> MapError(resultMap, errorMap),
              called |-> FALSE, arg |-> EmptyMap]
        ELSE IF r.kind = "throw"
        THEN [kind |-> "throw", value |-> MapError(resultMap, errorMap),
              called |-> TRUE, arg |-> resultMap]
        ELSE r @@ [called |-> TRUE, arg |-> resultMap]

ThenCallback(nameList, valueList, filter) ==
    LET resultMap == BuildMap(nameList, valueList, TRUE)
        errorMap == BuildMap(nameList, valueList, FALSE)
    IN  IF Keys(errorMap) # {}
        THEN [kind |-> "throw", value |-> MapError(resultMap, errorMap),
              called |-> FALSE, arg |-> EmptyMap]
        ELSE ApplyFilter(filter, resultMap) @@ [called |-> TRUE, arg |-> resultMap]

\* nameList.map((name) => this._nodeMap[name].collect().then(...)): the child
\* Contexts are collected in key order; the first collect() that throws ends
\* the executor, after the children before it were collected
RECURSIVE CollectChildren(_, _, _, _)
CollectChildren(map, i, heap, kids) ==
    IF i > Len(map)
    THEN [threw |-> NoError, kids |-> kids, heap |-> heap]
    ELSE LET r == ContextCollect(currentSource[map[i].node], heap)
         IN  IF r.threw # NoError
             THEN [threw |-> r.threw, kids |-> kids, heap |-> heap]
             ELSE CollectChildren(map, i + 1, r.heap, Append(kids, r.ret))

\* Map._collectValue up to its return: the collection it starts. The promise
\* it returns (outer) is rejected at once when the executor throws.
MapCollectValue(filter, map, heap) ==
    LET k == CollectChildren(map, 1, heap, <<>>)
        outer == IF k.threw # NoError
                 THEN [state |-> "rejected", value |-> ErrorVal(k.threw), src |-> Null]
                 ELSE Pending(Null)
    IN  [heap |-> Append(k.heap, outer),
         coll |-> [names |-> ObjectKeys(map), kids |-> k.kids, outer |-> Len(k.heap) + 1,
                   filter |-> filter, filterP |-> Null, called |-> FALSE,
                   arg |-> EmptyMap, threw |-> k.threw]]

\* The promise reactions of one collection that can run: the tagging
\* callbacks, Promise.all, the fan-in callback, and the returned (outer)
\* promise following the promise it was resolved with.
Reactions(c, heap) ==
    IF IsSettled(heap[c.outer])
    THEN [coll |-> c, heap |-> heap]
    ELSE IF c.filterP # Null
    THEN [coll |-> c,
          heap |-> IF IsSettled(heap[c.filterP])
                   THEN [heap EXCEPT ![c.outer].state = heap[c.filterP].state,
                                     ![c.outer].value = heap[c.filterP].value]
                   ELSE heap]
    ELSE LET all == PromiseAll([i \in 1..Len(c.kids) |-> TagOutcome(heap[c.kids[i]])])
         IN  CASE all.state = "pending" -> [coll |-> c, heap |-> heap]
               [] all.state = "rejected" ->
                    [coll |-> c,
                     heap |-> [heap EXCEPT ![c.outer].state = "rejected",
                                           ![c.outer].value = all.reason]]
               [] OTHER ->
                    LET r == ThenCallback(c.names, all.list, c.filter)
                        c2 == [c EXCEPT !.called = r.called, !.arg = r.arg]
                    IN  CASE r.kind = "return" ->
                               [coll |-> c2,
                                heap |-> [heap EXCEPT ![c.outer].state = "fulfilled",
                                                      ![c.outer].value = r.value]]
                          [] r.kind = "throw" ->
                               [coll |-> c2,
                                heap |-> [heap EXCEPT ![c.outer].state = "rejected",
                                                      ![c.outer].value = r.value]]
                          [] OTHER ->
                               [coll |-> [c2 EXCEPT !.filterP = Len(heap) + 1],
                                heap |-> Append(heap, Pending(Null))]

\* the promise job queue runs empty: every collection reacts
RECURSIVE Drain(_, _, _)
Drain(i, heap, colls) ==
    IF i > Len(colls)
    THEN [heap |-> heap, colls |-> colls]
    ELSE LET r == Reactions(colls[i], heap)
         IN  Drain(i + 1, r.heap, [colls EXCEPT ![i] = r.coll])

\* the Map's source function is called (Map._collectValue)
MapCollect(filter) ==
    /\ Len(collections) < MaxCollects
    /\ IF filter = "notfn"
       THEN /\ mapLast' = [NoMapOp EXCEPT !.op = "collect", !.threw = ErrFilterType]
            /\ UNCHANGED <<promises, collections>>
       ELSE LET r == MapCollectValue(filter, nodeMap, promises)
                d == Drain(1, r.heap, Append(collections, r.coll))
            IN  /\ promises' = d.heap
                /\ collections' = d.colls
                /\ mapLast' = [NoMapOp EXCEPT !.op = "collect"]
    /\ UNCHANGED <<currentSource, mounted, last, before, nodeMap, refNode, paramName, decoratorVars>>

\* a promise that a child's source or the filter returned is settled
IsFilterPromise(p) == \E i \in 1..Len(collections) : collections[i].filterP = p

MapSettle(p, state) ==
    /\ p \in DOMAIN promises
    /\ promises[p].state = "pending"
    /\ promises[p].src # Null \/ IsFilterPromise(p)
    /\ LET d == Drain(1, [promises EXCEPT ![p].state = state,
                                          ![p].value = Outcome(p, state)],
                      collections)
       IN  /\ promises' = d.heap
           /\ collections' = d.colls
    /\ mapLast' = [NoMapOp EXCEPT !.op = "settle"]
    /\ UNCHANGED <<currentSource, mounted, last, before, nodeMap, refNode, paramName, decoratorVars>>

\* the promises a collection can create: one per name, its own, the filter's
MaxMapPromises == MaxCollects * (Cardinality(Names) + 2)

InitMap ==
    /\ currentSource = [n \in Params |-> Null]
    /\ mounted = [n \in Params |-> [s \in Sources |-> FALSE]]
    /\ promises = <<>>
    /\ last = NoOp
    /\ before = Brief(NoOp)
    /\ InitMapIdle

NextMap ==
    \/ \E p \in Params, name \in Names : RefAttach(p, name)
    \/ \E p \in Params : RefDetach(p)
    \/ \E n \in Params : ChildSourceMount(n)
    \/ \E n \in Params : ChildSourceUnmount(n)
    \/ \E filter \in FilterModes : MapCollect(filter)
    \/ \E p \in 1..MaxMapPromises : MapSettle(p, "fulfilled")
    \/ \E p \in 1..MaxMapPromises : MapSettle(p, "rejected")

SpecMap == InitMap /\ [][NextMap]_vars

\* the Map's registry alone: Parameters and the sources inside them
NextMapRefs ==
    \/ \E p \in Params, name \in Names : RefAttach(p, name)
    \/ \E p \in Params : RefDetach(p)
    \/ \E n \in Params : ChildSourceMount(n)
    \/ \E n \in Params : ChildSourceUnmount(n)

SpecMapRefs == InitMap /\ [][NextMapRefs]_vars

\* ----------------------------------------------------------- decorators
\* Status, Debouncer and Preview render one Context and keep it in
\* _subContextNode: here Context SubContext, whose CollectableSource is
\* source instance SubContext (ChildSourceMount, ChildSourceUnmount).
\* React applies setState at once outside its own event handlers, and at the
\* end of the handler inside one, always before a timer or a promise reaction
\* runs: setState is an assignment here.
SubContext == 1

\* this._subContextNode.collect(), called by `by`: the result of
\* Context.collect and the record kept of the call
SubCollect(by, heap) ==
    LET r == ContextCollect(currentSource[SubContext], heap)
    IN  [threw |-> r.threw, ret |-> r.ret, heap |-> r.heap,
         entry |-> [by |-> by, threw |-> r.threw, ret |-> r.ret]]

\* the promise a source of the sub-context returned is settled by its source
\* with a value or an error of that computation
SettleValue(p, state) ==
    [promises EXCEPT ![p].state = state,
                     ![p].value = AtomVal(IF state = "fulfilled" THEN ValueOf(p) ELSE ErrorOf(p))]

\* ------------------------------------------------------------ Debouncer
MaxDebounces == 3   \* calls of Debouncer._collectValue

\* setState({ currentTimeoutId: timeoutId }) of _collectValue
StartDebounce_keepsFirst(current, timeoutId) ==
    IF current # Null THEN current ELSE timeoutId

StartDebounce(current, timeoutId) == timeoutId

\* the setTimeout callback of timer timeoutId: state.currentTimeoutId after
\* it, and whether it called resolve()
TimeoutCallback_unguarded(current, timeoutId) ==
    [current |-> Null, resolved |-> TRUE]

TimeoutCallback_resolvesStale(current, timeoutId) ==
    IF current # timeoutId
    THEN [current |-> current, resolved |-> TRUE]
    ELSE [current |-> Null, resolved |-> TRUE]

TimeoutCallback(current, timeoutId) ==
    IF current # timeoutId
    THEN [current |-> current, resolved |-> FALSE]
    ELSE [current |-> Null, resolved |-> TRUE]

\* Debouncer._collectValue: setTimeout hands out a fresh timer id; the call
\* returns the promise `new Promise(...).then(...)`, pending
DebouncerCollect ==
    /\ Len(debounces) < MaxDebounces
    /\ LET timeoutId == Len(debounces) + 1
       IN  /\ currentTimeoutId' = StartDebounce(currentTimeoutId, timeoutId)
           /\ debounces' = Append(debounces,
                  [prev |-> currentTimeoutId, fired |-> FALSE, resolved |-> FALSE,
                   child |-> Null, state |-> "pending", value |-> Undefined])
    /\ UNCHANGED <<laterVars, ctxVars, mapOnlyVars, subCollects, statusVars, prevalidatorVars>>

\* the then handler of _collectValue for timer t, run once resolve() was
\* called: the promise of the call follows the child's collection, or is
\* rejected with what collect() threw
ThenCollect(t, call, heap) ==
    LET r == SubCollect(t, heap)
    IN  [heap |-> r.heap, entry |-> r.entry,
         call |-> IF r.threw # NoError
                  THEN [call EXCEPT !.state = "rejected", !.value = ErrorVal(r.threw)]
                  ELSE [call EXCEPT !.child = r.ret]]

\* timer t fires (props.delayMs may differ from call to call, so timers fire
\* in any order), then the promise reactions run
TimerFire(t) ==
    /\ t \in DOMAIN debounces
    /\ ~debounces[t].fired
    /\ LET cb == TimeoutCallback(currentTimeoutId, t)
           call == [debounces[t] EXCEPT !.fired = TRUE, !.resolved = cb.resolved]
       IN  /\ currentTimeoutId' = cb.current
           /\ IF cb.resolved
              THEN LET r == ThenCollect(t, call, promises)
                   IN  /\ promises' = r.heap
                       /\ subCollects' = Append(subCollects, r.entry)
                       /\ debounces' = [debounces EXCEPT ![t] = r.call]
              ELSE /\ debounces' = [debounces EXCEPT ![t] = call]
                   /\ UNCHANGED <<laterVars, promises, subCollects>>
    /\ UNCHANGED <<laterVars, currentSource, mounted, last, before, mapOnlyVars, statusVars,
                   prevalidatorVars>>

\* a promise that follows promise p takes p's outcome
Follow(call, heap) ==
    IF call.child # Null /\ call.state = "pending" /\ IsSettled(heap[call.child])
    THEN [call EXCEPT !.state = heap[call.child].state, !.value = heap[call.child].value]
    ELSE call

\* the child's collection is settled
DebouncerSettle(p, state) ==
    /\ p \in DOMAIN promises
    /\ promises[p].state = "pending"
    /\ promises' = SettleValue(p, state)
    /\ debounces' = [t \in DOMAIN debounces |-> Follow(debounces[t], promises')]
    /\ UNCHANGED <<laterVars, currentSource, mounted, last, before, mapOnlyVars,
                   subCollects, currentTimeoutId, statusVars, prevalidatorVars>>

InitSubContext ==
    /\ currentSource = [c \in {SubContext} |-> Null]
    /\ mounted = [c \in {SubContext} |-> [s \in Sources |-> FALSE]]
    /\ promises = <<>>
    /\ last = NoOp
    /\ before = Brief(NoOp)

InitDebouncer ==
    /\ InitSubContext
    /\ InitMapIdle

NextDebouncer ==
    \/ ChildSourceMount(SubContext)
    \/ ChildSourceUnmount(SubContext)
    \/ DebouncerCollect
    \/ \E t \in 1..MaxDebounces : TimerFire(t)
    \/ \E p \in 1..MaxDebounces : DebouncerSettle(p, "fulfilled")
    \/ \E p \in 1..MaxDebounces : DebouncerSettle(p, "rejected")

SpecDebouncer == InitDebouncer /\ [][NextDebouncer]_vars

\* --------------------------------------------------------------- Status
MaxIntercepts == 3  \* calls of the Status source function

\* Status._onPending: state after setState({ currentCollection: collection })
OnPending_clearsError(state, collection) ==
    [currentCollection |-> collection, inputError |-> NullValue]

OnPending(state, collection) == [state EXCEPT !.currentCollection = collection]

\* Status._onCompletion: state after the functional setState
OnCompletion_unguarded(state, collection, error) ==
    [currentCollection |-> Null, inputError |-> error]

OnCompletion(state, collection, error) ==
    IF state.currentCollection = collection
    THEN [currentCollection |-> Null, inputError |-> error]
    ELSE state

\* Status._intercept: the state after _onPending and the promise returned;
\* the reaction registered on the collection runs in StatusSettle
Intercept_chained(state, collection, heap) ==
    [state |-> OnPending(state, collection), ret |-> Len(heap) + 1,
     heap |-> Append(heap, Pending(Null))]

Intercept(state, collection, heap) ==
    [state |-> OnPending(state, collection), ret |-> collection, heap |-> heap]

StatusState == [currentCollection |-> currentCollection, inputError |-> inputError]

\* the source function of Status: this._intercept(this._subContextNode.collect())
StatusCollect ==
    /\ Len(subCollects) < MaxIntercepts
    /\ LET r == SubCollect(Null, promises)
       IN  /\ subCollects' = Append(subCollects, r.entry)
           /\ IF r.threw # NoError
              THEN /\ statusLast' = [NoStatusOp EXCEPT !.op = "collect", !.threw = r.threw,
                                         !.preCollection = currentCollection,
                                         !.preError = inputError]
                   /\ UNCHANGED <<laterVars, promises, currentCollection, inputError>>
              ELSE LET i == Intercept(StatusState, r.ret, r.heap)
                   IN  /\ promises' = i.heap
                       /\ currentCollection' = i.state.currentCollection
                       /\ inputError' = i.state.inputError
                       /\ statusLast' = [NoStatusOp EXCEPT !.op = "collect", !.p = r.ret,
                                             !.ret = i.ret,
                                             !.preCollection = currentCollection,
                                             !.preError = inputError]
    /\ UNCHANGED <<laterVars, currentSource, mounted, last, before, mapOnlyVars, debouncerVars,
                   prevalidatorVars>>

\* a collection of the child is settled and the reaction _intercept registered
\* on it runs: _onCompletion(collection, null) or _onCompletion(collection, error)
StatusSettle(p, state) ==
    /\ p \in DOMAIN promises
    /\ promises[p].state = "pending"
    /\ promises[p].src # Null
    /\ promises' = SettleValue(p, state)
    /\ LET error == IF state = "fulfilled" THEN NullValue ELSE promises'[p].value
           n == OnCompletion(StatusState, p, error)
       IN  /\ currentCollection' = n.currentCollection
           /\ inputError' = n.inputError
    /\ statusLast' = [NoStatusOp EXCEPT !.op = "settle", !.p = p,
                          !.preCollection = currentCollection, !.preError = inputError]
    /\ UNCHANGED <<laterVars, currentSource, mounted, last, before, mapOnlyVars, debouncerVars,
                   subCollects, prevalidatorVars>>

InitStatus ==
    /\ InitSubContext
    /\ InitMapIdle

NextStatus ==
    \/ ChildSourceMount(SubContext)
    \/ ChildSourceUnmount(SubContext)
    \/ StatusCollect
    \/ \E p \in 1..MaxIntercepts : StatusSettle(p, "fulfilled")
    \/ \E p \in 1..MaxIntercepts : StatusSettle(p, "rejected")

SpecStatus == InitStatus /\ [][NextStatus]_vars

\* --------------------------------------------------------- Prevalidator
\* src/unnamed/part_000: the earlier library, where a component is
\* collectable when connect() gave it a getter, and collect(obj) calls it.
MaxUpdates == 3     \* calls of collect(this._node) by Prevalidator._update

ChildNode == 1      \* a collectable child component
PlainNode == NumParams + 1  \* an object without a getter
ErrTypeError == "TypeError"

\* collect(obj): throws on null and on an object without getter, otherwise
\* returns what the getter returns, here the promise of a new computation
CollectNode(obj, heap) ==
    IF obj = Null
    THEN [threw |-> ErrTypeError, ret |-> Null, heap |-> heap]
    ELSE IF obj = PlainNode
    THEN [threw |-> ErrNotCollectable, ret |-> Null, heap |-> heap]
    ELSE [threw |-> NoError, ret |-> Len(heap) + 1, heap |-> Append(heap, Pending(obj))]

PvState == [currentValueBase |-> currentValueBase, currentValue |-> currentValue,
            isValid |-> isValid]

\* the test of _update for "no actual change"
SameToken_nullToo(state, valueBase) == state.currentValueBase = valueBase

SameToken(state, valueBase) ==
    valueBase # NullToken /\ state.currentValueBase = valueBase

\* Prevalidator._update, up to the registration of the then handler: the
\* state after it, what it threw, and the steps it took in their order
\* ("collect": collect(this._node) was called)
Update(state, valueBase, obj, heap) ==
    IF SameToken(state, valueBase)
    THEN [state |-> state, heap |-> heap, threw |-> NoError, ret |-> Null, steps |-> <<>>]
    ELSE LET r == CollectNode(obj, heap)
         IN  IF r.threw # NoError
             THEN [state |-> [state EXCEPT !.currentValueBase = valueBase],
                   heap |-> heap, threw |-> r.threw, ret |-> Null,
                   steps |-> <<"collect">>]
             ELSE [state |-> [currentValueBase |-> valueBase, currentValue |-> r.ret,
                              isValid |-> FALSE],
                   heap |-> r.heap, threw |-> NoError, ret |-> r.ret,
                   steps |-> <<"collect">>
                             \o (IF state.isValid THEN <<"onInvalidation">> ELSE <<>>)
                             \o <<"setInvalid">>]

\* the then handler _update registered on `value`
ThenValidate_unguarded(state, value) ==
    [state |-> [state EXCEPT !.isValid = TRUE], steps |-> <<"setValid", "onValidation">>]

ThenValidate(state, value) ==
    IF state.currentValue # value
    THEN [state |-> state, steps |-> <<>>]
    ELSE [state |-> [state EXCEPT !.isValid = TRUE],
          steps |-> <<"setValid", "onValidation">>]

\* Prevalidator._collectValue
PvCollectValue_notReady(state) ==
    IF state.currentValue = Null \/ state.currentValue = Placeholder
    THEN [threw |-> "value not ready", ret |-> Null]
    ELSE [threw |-> NoError, ret |-> state.currentValue]

PvCollectValue_placeholder(state) == [threw |-> NoError, ret |-> Placeholder]

PvCollectValue(state) ==
    IF state.currentValue = Null
    THEN [threw |-> "value not ready", ret |-> Null]
    ELSE [threw |-> NoError, ret |-> state.currentValue]

\* the ref callback of render gives the child, null on unmount
PvRef(n) ==
    /\ n # pvNode
    /\ pvNode' = n
    /\ UNCHANGED <<laterVars, ctxVars, mapOnlyVars, subCollects, debouncerVars, statusVars,
                   currentValueBase, currentValue, isValid, pvLast>>

\* the child calls update(valueBase)
PvUpdate(valueBase) ==
    /\ Len(subCollects) < MaxUpdates
    /\ LET r == Update(PvState, valueBase, pvNode, promises)
       IN  /\ promises' = r.heap
           /\ currentValueBase' = r.state.currentValueBase
           /\ currentValue' = r.state.currentValue
           /\ isValid' = r.state.isValid
           /\ subCollects' = IF r.steps = <<>> THEN subCollects
                             ELSE Append(subCollects,
                                         [by |-> Null, threw |-> r.threw, ret |-> r.ret])
           /\ pvLast' = [NoPvOp EXCEPT !.op = "update", !.arg = valueBase,
                                       !.threw = r.threw, !.ret = r.ret, !.steps = r.steps,
                                       !.pre = PvState, !.preCalls = Len(subCollects)]
    /\ UNCHANGED <<laterVars, currentSource, mounted, last, before, mapOnlyVars, debouncerVars,
                   statusVars, pvNode>>

\* the parent collects: the getter of the Prevalidator
PvCollect ==
    /\ LET r == PvCollectValue(PvState)
       IN  pvLast' = [NoPvOp EXCEPT !.op = "collect", !.threw = r.threw, !.ret = r.ret,
                                    !.pre = PvState, !.preCalls = Len(subCollects)]
    /\ UNCHANGED <<laterVars, ctxVars, mapOnlyVars, subCollects, debouncerVars, statusVars,
                   pvNode, currentValueBase, currentValue, isValid>>

\* a collection of the child is settled; on fulfilment the then handler runs
PvSettle(p, state) ==
    /\ p \in DOMAIN promises
    /\ promises[p].state = "pending"
    /\ promises' = SettleValue(p, state)
    /\ LET r == IF state = "fulfilled" THEN ThenValidate(PvState, p)
                ELSE [state |-> PvState, steps |-> <<>>]
       IN  /\ isValid' = r.state.isValid
           /\ pvLast' = [NoPvOp EXCEPT !.op = "settle", !.p = p, !.steps = r.steps,
                                       !.pre = PvState, !.preCalls = Len(subCollects)]
    /\ UNCHANGED <<laterVars, currentSource, mounted, last, before, mapOnlyVars, debouncerVars,
                   statusVars, subCollects, pvNode, currentValueBase, currentValue>>

\* the constructor: _currentValue = Promise.reject(), no token, not valid
InitPrevalidator ==
    /\ InitSubContext
    /\ InitMapIdle

NextPrevalidator ==
    \/ \E n \in {Null, ChildNode, PlainNode} : PvRef(n)
    \/ \E valueBase \in Tokens \cup {NullToken} : PvUpdate(valueBase)
    \/ PvCollect
    \/ \E p \in 1..MaxUpdates : PvSettle(p, "fulfilled")
    \/ \E p \in 1..MaxUpdates : PvSettle(p, "rejected")

SpecPrevalidator == InitPrevalidator /\ [][NextPrevalidator]_vars

\* -------------------------------------------------------------- Preview
MaxPreviews == 3    \* calls of the sub-context's collect() through Preview

\* props.catch when a collection rejects: absent ("none"), a function that
\* returns a value ("value") or one that throws ("throws")
Fallbacks == {"none", "value", "throws"}
Caught(error) == [kind |-> "caught", atom |-> error.atom, values |-> EmptyMap,
                  errors |-> EmptyMap]
FallbackError == ErrorVal("G")

\* the rejection handler given to collection.catch: how the caught
\* collection settles
CatchHandler_swallows(fallback, error) ==
    IF fallback = "value" THEN [state |-> "fulfilled", value |-> Caught(error)]
    ELSE IF fallback = "throws" THEN [state |-> "rejected", value |-> FallbackError]
    ELSE [state |-> "fulfilled", value |-> Undefined]

CatchHandler(fallback, error) ==
    IF fallback = "value" THEN [state |-> "fulfilled", value |-> Caught(error)]
    ELSE IF fallback = "throws" THEN [state |-> "rejected", value |-> FallbackError]
    ELSE [state |-> "rejected", value |-> error]

\* collection.catch(...): the caught collection follows a fulfilled
\* collection and settles as the handler says for a rejected one
CaughtOutcome(fallback, p) ==
    IF p.state = "fulfilled" THEN [state |-> "fulfilled", value |-> p.value]
    ELSE CatchHandler(fallback, p.value)

\* Preview._onPending
PreviewOnPending(state, collection) == [state EXCEPT !.currentCollection = collection]

\* Preview._onSuccess
PreviewOnSuccess_unguarded(state, collection, result) ==
    [state EXCEPT !.lastValue = result]

PreviewOnSuccess(state, collection, result) ==
    IF state.currentCollection = collection
    THEN [state EXCEPT !.lastValue = result]
    ELSE state

\* caughtCollection.then(result => ...): only a fulfilment handler
ThenReport_onFailureToo(state, collection, outcome) ==
    PreviewOnSuccess(state, collection, outcome.value)

ThenReport(state, collection, outcome) ==
    IF outcome.state = "fulfilled"
    THEN PreviewOnSuccess(state, collection, outcome.value)
    ELSE state

PreviewState == [currentCollection |-> previewCurrent, lastValue |-> lastValue]

\* Preview._intercept: a new caught collection (its index in the list is its
\* identity) becomes the current one
PreviewIntercept(state, collection, list) ==
    [state |-> PreviewOnPending(state, Len(list) + 1),
     list |-> Append(list, [collection |-> collection, state |-> "pending",
                            value |-> Undefined])]

\* the Source function of Preview: this._subContextNode.collect()
DirectCollect_intercepted(state, list, heap) ==
    LET r == SubCollect(Null, heap)
        i == PreviewIntercept(state, r.ret, list)
    IN  [threw |-> r.threw, ret |-> r.ret, heap |-> r.heap, entry |-> r.entry,
         state |-> IF r.threw = NoError THEN i.state ELSE state,
         list |-> IF r.threw = NoError THEN i.list ELSE list]

DirectCollect(state, list, heap) ==
    LET r == SubCollect(Null, heap)
    IN  [threw |-> r.threw, ret |-> r.ret, heap |-> r.heap, entry |-> r.entry,
         state |-> state, list |-> list]

\* the parent collects through the Preview
PreviewCollect ==
    /\ Len(subCollects) < MaxPreviews
    /\ LET r == DirectCollect(PreviewState, attempts, promises)
       IN  /\ promises' = r.heap
           /\ subCollects' = Append(subCollects, r.entry)
           /\ previewCurrent' = r.state.currentCollection
           /\ lastValue' = r.state.lastValue
           /\ attempts' = r.list
           /\ previewLast' = [NoPreviewOp EXCEPT !.op = "collect", !.threw = r.threw,
                                 !.ret = r.ret, !.preCurrent = previewCurrent,
                                 !.preLast = lastValue]
    /\ UNCHANGED <<currentSource, mounted, last, before, mapOnlyVars, debouncerVars,
                   statusVars, prevalidatorVars, rootVars>>

\* the child calls preview(): this._intercept(this._subContextNode.collect())
PreviewPreview ==
    /\ Len(subCollects) < MaxPreviews
    /\ LET r == SubCollect(Len(attempts) + 1, promises)
       IN  /\ promises' = r.heap
           /\ subCollects' = Append(subCollects, r.entry)
           /\ IF r.threw # NoError
              THEN /\ previewLast' = [NoPreviewOp EXCEPT !.op = "preview",
                                         !.threw = r.threw,
                                         !.preCurrent = previewCurrent,
                                         !.preLast = lastValue]
                   /\ UNCHANGED <<previewCurrent, lastValue, attempts>>
              ELSE LET i == PreviewIntercept(PreviewState, r.ret, attempts)
                   IN  /\ previewCurrent' = i.state.currentCollection
                       /\ lastValue' = i.state.lastValue
                       /\ attempts' = i.list
                       /\ previewLast' = [NoPreviewOp EXCEPT !.op = "preview",
                                             !.p = r.ret, !.attempt = Len(i.list),
                                             !.preCurrent = previewCurrent,
                                             !.preLast = lastValue]
    /\ UNCHANGED <<currentSource, mounted, last, before, mapOnlyVars, debouncerVars,
                   statusVars, prevalidatorVars, rootVars>>

\* the attempt whose collection is promise p, or Null
AttemptOf(list, p) ==
    IF \E k \in DOMAIN list : list[k].collection = p
    THEN CHOOSE k \in DOMAIN list : list[k].collection = p
    ELSE Null

\* a collection of the child is settled; if a preview() intercepted it, its
\* caught collection settles and the fulfilment handler runs. props.catch
\* is read only in the rejection handler.
PreviewSettle(p, state, fallback) ==
    /\ p \in DOMAIN promises
    /\ promises[p].state = "pending"
    /\ fallback # "none" => (state = "rejected" /\ AttemptOf(attempts, p) # Null)
    /\ promises' = SettleValue(p, state)
    /\ LET k == AttemptOf(attempts, p)
       IN  IF k = Null
           THEN UNCHANGED <<previewCurrent, lastValue, attempts>>
           ELSE LET outcome == CaughtOutcome(fallback, promises'[p])
                    n == ThenReport(PreviewState, k, outcome)
                IN  /\ attempts' = [attempts EXCEPT ![k].state = outcome.state,
                                                    ![k].value = outcome.value]
                    /\ previewCurrent' = n.currentCollection
                    /\ lastValue' = n.lastValue
    /\ previewLast' = [NoPreviewOp EXCEPT !.op = "settle", !.p = p,
                           !.attempt = AttemptOf(attempts, p), !.fallback = fallback,
                           !.preCurrent = previewCurrent, !.preLast = lastValue]
    /\ UNCHANGED <<currentSource, mounted, last, before, mapOnlyVars, debouncerVars,
                   statusVars, prevalidatorVars, rootVars, subCollects>>

InitPreview ==
    /\ InitSubContext
    /\ InitMapIdle

NextPreview ==
    \/ ChildSourceMount(SubContext)
    \/ ChildSourceUnmount(SubContext)
    \/ PreviewCollect
    \/ PreviewPreview
    \/ \E p \in 1..MaxPreviews, f \in Fallbacks : PreviewSettle(p, "fulfilled", f)
    \/ \E p \in 1..MaxPreviews, f \in Fallbacks : PreviewSettle(p, "rejected", f)

SpecPreview == InitPreview /\ [][NextPreview]_vars

\* ----------------------------------------------------------------- Root
\* src/unnamed/part_000, the earlier library: the user submits, and the
\* first successful value is promised to whoever collects the Root.
MaxSubmits == 3     \* calls of collect(this._contentsNode) by Root._submit

RootResult == 1     \* the promise the constructor makes: this._result

RootState == [currentCollection |-> rootCurrent, isResolved |-> isResolved]

\* the getter of the Root: () => this._result
RootGetter_submits(state, obj, heap) ==
    LET r == CollectNode(obj, heap)
    IN  [threw |-> r.threw, ret |-> r.ret, heap |-> r.heap, called |-> TRUE]

RootGetter(state, obj, heap) ==
    [threw |-> NoError, ret |-> RootResult, heap |-> heap, called |-> FALSE]

\* Root._submit up to the registration of the handlers: what it threw, the
\* state after it, and whether it called collect(this._contentsNode)
Submit_whilePending(state, obj, heap) ==
    IF state.isResolved
    THEN [threw |-> ErrAlreadyResolved, state |-> state, heap |-> heap,
          ret |-> Null, called |-> FALSE]
    ELSE LET r == CollectNode(obj, heap)
         IN  [threw |-> r.threw, heap |-> r.heap, ret |-> r.ret, called |-> TRUE,
              state |-> IF r.threw # NoError THEN state
                        ELSE [state EXCEPT !.currentCollection = r.ret]]

Submit(state, obj, heap) ==
    IF state.isResolved
    THEN [threw |-> ErrAlreadyResolved, state |-> state, heap |-> heap,
          ret |-> Null, called |-> FALSE]
    ELSE IF state.currentCollection # Null
    THEN [threw |-> ErrAlreadySubmitted, state |-> state, heap |-> heap,
          ret |-> Null, called |-> FALSE]
    ELSE LET r == CollectNode(obj, heap)
         IN  [threw |-> r.threw, heap |-> r.heap, ret |-> r.ret, called |-> TRUE,
              state |-> IF r.threw # NoError THEN state
                        ELSE [state EXCEPT !.currentCollection = r.ret]]

\* resolve(v) of a promise: a settled promise stays as it is
Resolve(heap, p, state, value) ==
    IF IsSettled(heap[p]) THEN heap
    ELSE [heap EXCEPT ![p].state = state, ![p].value = value]

\* the handlers _submit registered on a collection, once it has settled as
\* outcome: the state and the promises after them
SubmitSettled_rejectsResult(state, outcome, heap) ==
    IF outcome.state = "fulfilled"
    THEN [state |-> [currentCollection |-> Null, isResolved |-> TRUE],
          heap |-> Resolve(heap, RootResult, "fulfilled", outcome.value)]
    ELSE [state |-> [state EXCEPT !.currentCollection = Null],
          heap |-> Resolve(heap, RootResult, "rejected", outcome.value)]

SubmitSettled(state, outcome, heap) ==
    IF outcome.state = "fulfilled"
    THEN [state |-> [currentCollection |-> Null, isResolved |-> TRUE],
          heap |-> Resolve(heap, RootResult, "fulfilled", outcome.value)]
    ELSE [state |-> [state EXCEPT !.currentCollection = Null], heap |-> heap]

\* the ref callback of render gives the contents, null on unmount
RootRef(n) ==
    /\ n # contentsNode
    /\ contentsNode' = n
    /\ UNCHANGED <<ctxVars, mapOnlyVars, subCollects, debouncerVars, statusVars,
                   prevalidatorVars, previewVars, rootCurrent, isResolved, rootLast>>

RootLog(op) == [NoRootOp EXCEPT !.op = op, !.preCurrent = rootCurrent,
                                !.preResolved = isResolved,
                                !.preCalls = Len(subCollects)]

\* the user submits
RootSubmit ==
    /\ Len(subCollects) < MaxSubmits
    /\ LET r == Submit(RootState, contentsNode, promises)
       IN  /\ promises' = r.heap
           /\ rootCurrent' = r.state.currentCollection
           /\ isResolved' = r.state.isResolved
           /\ subCollects' = IF r.called
                             THEN Append(subCollects,
                                         [by |-> Null, threw |-> r.threw, ret |-> r.ret])
                             ELSE subCollects
           /\ rootLast' = [RootLog("submit") EXCEPT !.threw = r.threw, !.ret = r.ret]
    /\ UNCHANGED <<currentSource, mounted, last, before, mapOnlyVars, debouncerVars,
                   statusVars, prevalidatorVars, previewVars, contentsNode>>

\* the parent collects the Root
RootCollect ==
    /\ Len(subCollects) < MaxSubmits
    /\ LET r == RootGetter(RootState, contentsNode, promises)
       IN  /\ promises' = r.heap
           /\ subCollects' = IF r.called
                             THEN Append(subCollects,
                                         [by |-> Null, threw |-> r.threw, ret |-> r.ret])
                             ELSE subCollects
           /\ rootLast' = [RootLog("collect") EXCEPT !.threw = r.threw, !.ret = r.ret]
    /\ UNCHANGED <<currentSource, mounted, last, before, mapOnlyVars, debouncerVars,
                   statusVars, prevalidatorVars, previewVars, contentsNode,
                   rootCurrent, isResolved>>

\* a collection of the contents is settled and the handlers of _submit run
RootSettle(p, state) ==
    /\ p \in DOMAIN promises
    /\ p # RootResult
    /\ promises[p].state = "pending"
    /\ LET settled == SettleValue(p, state)
           r == SubmitSettled(RootState, settled[p], settled)
       IN  /\ promises' = r.heap
           /\ rootCurrent' = r.state.currentCollection
           /\ isResolved' = r.state.isResolved
    /\ rootLast' = [RootLog("settle") EXCEPT !.p = p]
    /\ UNCHANGED <<currentSource, mounted, last, before, mapOnlyVars, debouncerVars,
                   statusVars, prevalidatorVars, previewVars, subCollects, contentsNode>>

\* the constructor: _result is promise RootResult, pending
InitRoot ==
    /\ currentSource = [c \in {SubContext} |-> Null]
    /\ mounted = [c \in {SubContext} |-> [s \in Sources |-> FALSE]]
    /\ promises = <<Pending(Null)>>
    /\ last = NoOp
    /\ before = Brief(NoOp)
    /\ InitMapIdle

NextRoot ==
    \/ \E n \in {Null, ChildNode, PlainNode} : RootRef(n)
    \/ RootSubmit
    \/ RootCollect
    \/ \E p \in 2..(MaxSubmits + 1) : RootSettle(p, "fulfilled")
    \/ \E p \in 2..(MaxSubmits + 1) : RootSettle(p, "rejected")

SpecRoot == InitRoot /\ [][NextRoot]_vars

\* ------------------------------------------------- Map of the earlier library
\* src/unnamed/part_000: the Map whose Parameters give collectable
\* components (node p of Parameter p, registered by the same setNode and
\* unsetNode) and whose collection rejects with InputError.
InputError == [kind |-> "InputError", atom |-> "Input error", values |-> EmptyMap,
               errors |-> EmptyMap]

\* a child's promise as Promise.all sees it: no tagging handlers
Untagged(p) ==
    CASE p.state = "fulfilled" -> [state |-> "fulfilled", result |-> p.value, ok |-> TRUE]
      [] p.state = "rejected" -> [state |-> "rejected", result |-> p.value, ok |-> FALSE]
      [] OTHER -> [state |-> "pending", result |-> Undefined, ok |-> FALSE]

\* nameList.map((name) => collect(this._nodeMap[name]))
RECURSIVE OldCollectChildren(_, _, _, _)
OldCollectChildren(map, i, heap, kids) ==
    IF i > Len(map)
    THEN [threw |-> NoError, kids |-> kids, heap |-> heap]
    ELSE LET r == CollectNode(map[i].node, heap)
         IN  IF r.threw # NoError
             THEN [threw |-> r.threw, kids |-> kids, heap |-> heap]
             ELSE OldCollectChildren(map, i + 1, r.heap, Append(kids, r.ret))

\* Map._collectValue up to its return
OldMapCollectValue(map, heap) ==
    LET k == OldCollectChildren(map, 1, heap, <<>>)
        outer == IF k.threw # NoError
                 THEN [state |-> "rejected", value |-> ErrorVal(k.threw), src |-> Null]
                 ELSE Pending(Null)
    IN  [heap |-> Append(k.heap, outer),
         coll |-> [names |-> ObjectKeys(map), kids |-> k.kids, outer |-> Len(k.heap) + 1,
                   filter |-> "none", filterP |-> Null, called |-> FALSE,
                   arg |-> EmptyMap, threw |-> k.threw]]

\* Promise.all(valuePromiseList).then(resolve the map, reject(new InputError()))
OldReactions(c, heap) ==
    IF IsSettled(heap[c.outer])
    THEN heap
    ELSE LET all == PromiseAll([i \in 1..Len(c.kids) |-> Untagged(heap[c.kids[i]])])
         IN  CASE all.state = "pending" -> heap
               [] all.state = "rejected" ->
                    [heap EXCEPT ![c.outer].state = "rejected", ![c.outer].value = InputError]
               [] OTHER ->
                    [heap EXCEPT ![c.outer].state = "fulfilled",
                                 ![c.outer].value = MapVal(BuildMap(c.names, all.list, TRUE))]

RECURSIVE OldDrain(_, _, _)
OldDrain(i, heap, colls) ==
    IF i > Len(colls) THEN heap
    ELSE OldDrain(i + 1, OldReactions(colls[i], heap), colls)

\* the getter of the Map is called
OldMapCollect ==
    /\ Len(collections) < MaxCollects
    /\ LET r == OldMapCollectValue(nodeMap, promises)
       IN  /\ collections' = Append(collections, r.coll)
           /\ promises' = OldDrain(1, r.heap, collections')
    /\ mapLast' = [NoMapOp EXCEPT !.op = "collect"]
    /\ UNCHANGED <<currentSource, mounted, last, before, nodeMap, refNode, paramName,
                   decoratorVars>>

\* the promise a child returned is settled
OldMapSettle(p, state) ==
    /\ p \in DOMAIN promises
    /\ promises[p].state = "pending"
    /\ promises[p].src # Null
    /\ promises' = OldDrain(1, [promises EXCEPT ![p].state = state,
                                                ![p].value = Outcome(p, state)],
                            collections)
    /\ mapLast' = [NoMapOp EXCEPT !.op = "settle"]
    /\ UNCHANGED <<currentSource, mounted, last, before, nodeMap, refNode, paramName,
                   collections, decoratorVars>>

NextOldMap ==
    \/ \E p \in Params, name \in Names : RefAttach(p, name)
    \/ \E p \in Params : RefDetach(p)
    \/ OldMapCollect
    \/ \E p \in 1..MaxMapPromises : OldMapSettle(p, "fulfilled")
    \/ \E p \in 1..MaxMapPromises : OldMapSettle(p, "rejected")

SpecOldMap == InitMap /\ [][NextOldMap]_vars

\* ------------------------------------------------------- Context claims

\* C1: Context.collect() with no source registered throws the fatal error and
\* creates nothing; with a source registered it calls that source's function
\* and returns the very promise that call returned, so the caller sees the
\* source's own fulfilment value or rejection error.
C1_CollectForwards ==
    last.op = "collect" =>
        IF last.pre = Null
        THEN last.threw = ErrNoSource /\ last.ret = Null /\ last.made = Null
        ELSE /\ last.threw = NoError
             /\ last.ret = last.made
             /\ last.ret \in DOMAIN promises
             /\ promises[last.ret].src = last.pre

C1_Witness ==
    /\ last.op = "collect"
    /\ last.pre # Null
    /\ last.ret \in DOMAIN promises
    /\ promises[last.ret].state = "rejected"

\* C2: registering a source while another is registered throws and leaves the
\* registered source in place; registering into an empty slot succeeds, in
\* particular right after the registered source was unregistered.
C2_RegisterExclusive ==
    last.op = "register" =>
        IF last.pre # Null
        THEN last.threw = ErrMoreThanOne /\ currentSource[last.ctx] = last.pre
        ELSE last.threw = NoError /\ currentSource[last.ctx] = last.src

C2_Witness ==
    /\ last.op = "register"
    /\ last.threw = NoError
    /\ before.op = "unregister"
    /\ before.ctx = last.ctx
    /\ before.threw = NoError
    /\ before.src # last.src

\* C3 as stated: unregistering a source that is not the registered one raises
\* no error and leaves the slot unchanged.
C3_Original ==
    (last.op = "unregister" /\ last.src # last.pre) =>
        (last.threw = NoError /\ currentSource[last.ctx] = last.pre)

\* C3 amended: unregistering a source that is not the registered one throws
\* the fatal error and leaves the slot unchanged; unregistering the registered
\* source raises nothing and clears the slot.
C3_UnregisterGuard ==
    last.op = "unregister" =>
        IF last.src # last.pre
        THEN last.threw = ErrUnrecognized /\ currentSource[last.ctx] = last.pre
        ELSE last.threw = NoError /\ currentSource[last.ctx] = Null

C3_Witness ==
    /\ last.op = "unregister"
    /\ last.src # last.pre
    /\ last.pre # Null
    /\ currentSource[last.ctx] = last.pre

\* ----------------------------------------------------------- Map claims
Settled(p) == IsSettled(promises[p])
NameSet(c) == {c.names[i] : i \in 1..Len(c.names)}

\* every child collect() of the snapshot returned a promise
Complete(c) == c.threw = NoError /\ Len(c.kids) = Len(c.names)
AllSettled(c) == \A i \in 1..Len(c.kids) : Settled(c.kids[i])
AllResolved(c) == \A i \in 1..Len(c.kids) : promises[c.kids[i]].state = "fulfilled"
SomeRejected(c) == \E i \in 1..Len(c.kids) : promises[c.kids[i]].state = "rejected"

\* name -> what the child of that name settled with, for the children in `state`
ChildMap(c, state) ==
    [n \in Names |->
        IF \E i \in 1..Len(c.kids) : c.names[i] = n /\ promises[c.kids[i]].state = state
        THEN promises[c.kids[CHOOSE i \in 1..Len(c.kids) : c.names[i] = n]].value.atom
        ELSE Absent]

IsMapErrorOf(c) ==
    /\ promises[c.outer].state = "rejected"
    /\ promises[c.outer].value.kind = "MapError"
    /\ promises[c.outer].value.values = ChildMap(c, "fulfilled")
    /\ promises[c.outer].value.errors = ChildMap(c, "rejected")
    /\ Keys(promises[c.outer].value.values) \cap Keys(promises[c.outer].value.errors) = {}

Colls == {collections[i] : i \in 1..Len(collections)}

\* C4 (as claimed): whenever a child of the snapshot has rejected and
\* collect() has settled, it has rejected with the MapError of exactly the
\* resolved and the rejected children. Map._collectValue breaks it when a
\* later child's collect() throws inside the executor: the thrown error is
\* the rejection, and no MapError is built.
C4_Original ==
    \A c \in Colls : (SomeRejected(c) /\ Settled(c.outer)) => IsMapErrorOf(c)

\* C5 (as claimed): collect() has not settled while a child collection of
\* its snapshot is pending. Map._collectValue breaks it when a later child's
\* collect() throws inside the executor: collect() is rejected at once, the
\* children collected before it still pending.
C5_Original ==
    \A c \in Colls : Settled(c.outer) => AllSettled(c)

\* C6: the map the filter is called with, and the value map and error map of
\* a MapError together, hold exactly the names of the snapshot taken when the
\* collection was started, whatever the registry holds by then.
C6_SnapshotNames ==
    \A c \in Colls :
        /\ c.called => Keys(c.arg) = NameSet(c)
        /\ (Complete(c) /\ promises[c.outer].state = "rejected"
                /\ promises[c.outer].value.kind = "MapError") =>
              Keys(promises[c.outer].value.values)
                  \cup Keys(promises[c.outer].value.errors) = NameSet(c)
        /\ (Complete(c) /\ AllSettled(c)) =>
              (c.called \/ promises[c.outer].value.kind = "MapError")

\* the last child settled after the registry had lost and gained a name
C6_Witness ==
    /\ mapLast.op = "settle"
    /\ \E c \in Colls :
        /\ Complete(c)
        /\ c.filterP = Null
        /\ Len(c.kids) = 1
        /\ Settled(c.outer)
        /\ c.called
        /\ \E n \in Names : HasName(nodeMap, n) /\ n \notin NameSet(c)
        /\ \E n \in NameSet(c) : ~HasName(nodeMap, n)

\* C7: when every child of the snapshot has resolved and the filter throws F,
\* collect() has rejected with F itself; when the filter returned a promise
\* that has rejected with F, collect() has rejected with that same F.
C7_FilterErrorUnwrapped ==
    \A c \in Colls :
        (Complete(c) /\ AllResolved(c)) =>
            /\ c.filter = "throws" =>
                  (promises[c.outer].state = "rejected"
                     /\ promises[c.outer].value = FilterError)
            /\ (c.filter = "promise" /\ c.filterP # Null
                   /\ promises[c.filterP].state = "rejected") =>
                  (promises[c.outer].state = "rejected"
                     /\ promises[c.outer].value = promises[c.filterP].value)

C7_Witness ==
    \E c \in Colls :
        /\ Complete(c)
        /\ Len(c.kids) = 2
        /\ AllResolved(c)
        /\ c.filter = "throws"
        /\ promises[c.outer].state = "rejected"

\* C8: when every child of the snapshot has resolved, the filter was called
\* with the map of each snapshot name to its child's value and collect() has
\* resolved with what the filter returned: the map itself without a filter,
\* and the value of the promise a filter returned once that has resolved.
C8_SuccessValue ==
    \A c \in Colls :
        (Complete(c) /\ AllResolved(c)) =>
            /\ c.called
            /\ c.arg = ChildMap(c, "fulfilled")
            /\ Keys(c.arg) = NameSet(c)
            /\ c.filter = "none" =>
                  (promises[c.outer].state = "fulfilled"
                     /\ promises[c.outer].value = MapVal(c.arg))
            /\ c.filter = "sync" =>
                  (promises[c.outer].state = "fulfilled"
                     /\ promises[c.outer].value = Filtered(c.arg))
            /\ (c.filter = "promise" /\ c.filterP # Null
                   /\ promises[c.filterP].state = "fulfilled") =>
                  (promises[c.outer].state = "fulfilled"
                     /\ promises[c.outer].value = promises[c.filterP].value)

C8_Witness ==
    \E c \in Colls :
        /\ Complete(c)
        /\ Len(c.kids) = 2
        /\ AllResolved(c)
        /\ c.filter = "sync"
        /\ promises[c.outer].state = "fulfilled"
        /\ promises[c.outer].value.values["a"] # promises[c.outer].value.values["b"]

\* C9: registering a name that has an entry throws and leaves the entry as it
\* was; registering a name that has none adds the entry. Hence no name has
\* two entries and every Parameter that registered is the one on record for
\* its name.
C9_DuplicateNameFatal ==
    /\ mapLast.op = "attach" =>
          IF mapLast.pre # Null
          THEN mapLast.threw = ErrDuplicate /\ Lookup(nodeMap, mapLast.name) = mapLast.pre
          ELSE mapLast.threw = NoError /\ Lookup(nodeMap, mapLast.name) = mapLast.node
    /\ \A i, j \in 1..Len(nodeMap) : nodeMap[i].name = nodeMap[j].name => i = j
    /\ \A p \in Params : refNode[p] # Null => Lookup(nodeMap, paramName[p]) = refNode[p]

C9_Witness ==
    /\ mapLast.op = "attach"
    /\ mapLast.threw = ErrDuplicate
    /\ mapLast.pre # Null
    /\ mapLast.pre # mapLast.node
    /\ refNode[mapLast.node] = Null

\* C10: a Parameter's unregistration removes the entry of its name when its
\* node is the one on record for that name, and nothing else; otherwise it
\* leaves the whole registry as it was.
C10_StaleUnregister ==
    [][\A p \in Params :
          (paramName[p] # Absent /\ paramName'[p] = Absent) =>
              nodeMap' = IF HasName(nodeMap, paramName[p])
                            /\ Lookup(nodeMap, paramName[p]) = refNode[p]
                         THEN Delete(nodeMap, paramName[p])
                         ELSE nodeMap]_vars

C10_Witness ==
    /\ mapLast.op = "detach"
    /\ mapLast.node = Null
    /\ mapLast.pre # Null
    /\ Lookup(nodeMap, mapLast.name) = mapLast.pre

\* ------------------------------------------------------ Debouncer claims
\* the calls of the sub-context's collect() that the then handler of timer t made
Invocations(t) == {k \in DOMAIN subCollects : subCollects[k].by = t}
Superseded(t) == \E k \in DOMAIN debounces : debounces[k].prev = t

\* C11: when collect() is called while the timer of an earlier call has not
\* fired, the earlier timer never invokes the child's collect(); the two
\* calls together invoke it at most once, not before the later timer has
\* fired, and exactly once when the later timer fires as the active one.
C11_DebounceCoalesces ==
    \A j \in DOMAIN debounces :
        LET i == debounces[j].prev
        IN  i # Null =>
              /\ Invocations(i) = {}
              /\ Invocations(j) # {} => debounces[j].fired
              /\ Cardinality(Invocations(i) \cup Invocations(j)) <= 1
              /\ (debounces[j].fired /\ ~Superseded(j)) =>
                     Cardinality(Invocations(i) \cup Invocations(j)) = 1

C11_Witness ==
    \E j \in DOMAIN debounces :
        /\ debounces[j].prev # Null
        /\ debounces[debounces[j].prev].fired
        /\ debounces[j].fired
        /\ Cardinality(Invocations(j)) = 1
        /\ Len(subCollects) = 1

\* C12: the active timer is none or the one the latest collect() started,
\* and a timer that fires while it is not the active one changes nothing:
\* the pending state stays, its promise is not resolved, no child collection.
C12_SupersededTimerNoOp ==
    [][/\ currentTimeoutId' \in {Null, Len(debounces')}
       /\ \A t \in DOMAIN debounces :
            (~debounces[t].fired /\ debounces'[t].fired /\ currentTimeoutId # t) =>
                /\ currentTimeoutId' = currentTimeoutId
                /\ ~debounces'[t].resolved
                /\ debounces'[t].state = "pending"
                /\ subCollects' = subCollects
                /\ promises' = promises]_vars

C12_Witness ==
    \E t \in DOMAIN debounces :
        /\ debounces[t].fired
        /\ ~debounces[t].resolved
        /\ debounces[t].state = "pending"
        /\ currentTimeoutId # Null
        /\ currentTimeoutId # t

\* --------------------------------------------------------- Status claims
\* the error _onCompletion is given for the settled promise p
CompletionError(p) ==
    IF promises[p].state = "fulfilled" THEN NullValue ELSE promises[p].value

\* C19: when a collection settles that is not the current one (a later
\* collect() replaced it, whether or not that later one has settled since),
\* the pair (inputError, isPending) stays as it was; the settlement of the
\* current collection clears isPending and sets the error (null on success).
C19_StaleSettlementIgnored ==
    statusLast.op = "settle" =>
        IF statusLast.p # statusLast.preCollection
        THEN /\ currentCollection = statusLast.preCollection
             /\ inputError = statusLast.preError
        ELSE /\ currentCollection = Null
             /\ inputError = CompletionError(statusLast.p)

C19_Witness ==
    /\ statusLast.op = "settle"
    /\ statusLast.preCollection # Null
    /\ statusLast.p < statusLast.preCollection
    /\ promises[statusLast.p].state = "rejected"
    /\ currentCollection = statusLast.preCollection
    /\ inputError = NullValue

\* C20: the Status source function returns the very promise the child's
\* collect() returned, and throws what it threw: the caller sees the child's
\* value or error as the child produced it.
C20_StatusPassesThrough ==
    statusLast.op = "collect" =>
        LET e == subCollects[Len(subCollects)]
        IN  /\ statusLast.threw = e.threw
            /\ statusLast.ret = e.ret
            /\ e.threw = NoError =>
                   /\ promises[statusLast.ret].src = SubContext
                   /\ promises[statusLast.ret].state = "pending"

C20_Witness ==
    /\ statusLast.op = "collect"
    /\ statusLast.ret # Null
    /\ statusLast.ret = subCollects[Len(subCollects)].ret
    /\ statusLast.ret > 1
    /\ promises[1].state = "rejected"
    /\ inputError = promises[1].value

\* --------------------------------------------------- Prevalidator claims
\* the latest update() found a token other than the last one, or null
ActualUpdate == ~SameToken(pvLast.pre, pvLast.arg)
StepsOf(l) == {l.steps[i] : i \in DOMAIN l.steps}

\* C13: update(x) with a non-null x that is the last token calls no child
\* collect() and changes no state; any other update, update(null) always,
\* calls the child's collect() once; every update leaves x as the last token,
\* so that of two consecutive update(x) the second starts nothing.
C13_UpdateSameTokenNoOp ==
    pvLast.op = "update" =>
        /\ currentValueBase = pvLast.arg
        /\ IF pvLast.arg # NullToken /\ pvLast.pre.currentValueBase = pvLast.arg
           THEN /\ PvState = pvLast.pre
                /\ Len(subCollects) = pvLast.preCalls
                /\ pvLast.steps = <<>>
                /\ pvLast.threw = NoError
           ELSE /\ Len(subCollects) = pvLast.preCalls + 1
                /\ pvLast.steps # <<>>

C13_Witness ==
    /\ pvLast.op = "update"
    /\ pvLast.arg # NullToken
    /\ pvLast.pre.currentValueBase = pvLast.arg
    /\ Len(subCollects) = 1
    /\ currentValue = 1
    /\ promises[currentValue].state = "pending"

\* C14: a collection of the child that is fulfilled sets isValid and fires
\* onValidation only when it is the cached one; any other settlement changes
\* nothing; isValid holds only while the latest collection started is the
\* cached one and is fulfilled.
C14_StaleResultGuard ==
    /\ isValid =>
          /\ currentValue = Len(promises)
          /\ currentValue # Placeholder
          /\ promises[currentValue].state = "fulfilled"
    /\ pvLast.op = "settle" =>
          IF pvLast.p = currentValue /\ promises[pvLast.p].state = "fulfilled"
          THEN isValid /\ pvLast.steps = <<"setValid", "onValidation">>
          ELSE isValid = pvLast.pre.isValid /\ pvLast.steps = <<>>

C14_Witness ==
    /\ pvLast.op = "settle"
    /\ pvLast.p # currentValue
    /\ promises[pvLast.p].state = "fulfilled"
    /\ PromiseAt(promises, currentValue).state = "pending"
    /\ ~isValid

\* C15: collect() before any update() does not throw and returns a promise
\* that is already rejected.
C15_PlaceholderRejected ==
    (pvLast.op = "collect" /\ Len(subCollects) = 0 /\ currentValueBase = NullToken) =>
        /\ pvLast.threw = NoError
        /\ pvLast.ret # Null
        /\ PromiseAt(promises, pvLast.ret).state = "rejected"

C15_Witness ==
    /\ pvLast.op = "collect"
    /\ Len(subCollects) = 0
    /\ pvLast.ret = Placeholder
    /\ currentValue = Placeholder
    /\ PromiseAt(promises, pvLast.ret).state = "rejected"

\* C16: collect() returns the promise stored last, starts no child
\* collection and changes no state; a collect() right after a collect()
\* returns the same promise.
C16_CollectReturnsCached ==
    [][pvLast'.op = "collect" =>
          /\ pvLast'.threw = NoError
          /\ pvLast'.ret = currentValue
          /\ pvLast.op = "collect" => pvLast'.ret = pvLast.ret
          /\ UNCHANGED <<currentValue, currentValueBase, isValid, subCollects, promises>>]_vars

C16_Witness ==
    /\ pvLast.op = "collect"
    /\ pvLast.ret = currentValue
    /\ pvLast.ret = 2
    /\ Len(promises) = 2
    /\ promises[1].state = "rejected"
    /\ isValid

\* C17 (as claimed): update() fires onInvalidation exactly when it is an
\* actual update made while isValid is true, and after every actual update
\* isValid is false.
C17_Original ==
    pvLast.op = "update" =>
        /\ ("onInvalidation" \in StepsOf(pvLast)) <=> (ActualUpdate /\ pvLast.pre.isValid)
        /\ ActualUpdate => ~isValid

\* C18 (as claimed): on an actual update that starts a child collection the
\* invalidation comes before the child's collect() is called.
C18_Original ==
    (pvLast.op = "update" /\ ActualUpdate /\ pvLast.ret # Null) =>
        \E i, j \in DOMAIN pvLast.steps :
            /\ pvLast.steps[i] = "setInvalid"
            /\ pvLast.steps[j] = "collect"
            /\ i < j

\* C27: a collect() that returns a collection makes it the current one
\* (isPending true) and leaves inputError as it was, as does a collect() that
\* throws; inputError changes only at the settlement of the current
\* collection, to null on fulfilment and to the reason on rejection.
C27_ErrorRetained ==
    /\ statusLast.op = "collect" =>
          /\ inputError = statusLast.preError
          /\ statusLast.threw = NoError =>
                 currentCollection # Null /\ currentCollection = statusLast.p
    /\ statusLast.op = "settle" =>
          /\ inputError # statusLast.preError => statusLast.p = statusLast.preCollection
          /\ statusLast.p = statusLast.preCollection =>
                 inputError = CompletionError(statusLast.p)

C27_Witness ==
    /\ statusLast.op = "collect"
    /\ statusLast.threw = NoError
    /\ statusLast.preCollection = Null
    /\ currentCollection # Null
    /\ inputError # NullValue
    /\ inputError = statusLast.preError

\* C28: the promise of a call whose timer was superseded stays pending for
\* good, its resolve() is never called, also once the later call's child
\* collection has settled; a call whose promise is settled was not superseded.
C28_SupersededNeverSettles ==
    \A t \in DOMAIN debounces :
        Superseded(t) =>
            /\ debounces[t].state = "pending"
            /\ ~debounces[t].resolved
            /\ debounces[t].child = Null

C28_Witness ==
    \E t, j \in DOMAIN debounces :
        /\ debounces[j].prev = t
        /\ debounces[t].fired
        /\ debounces[t].state = "pending"
        /\ debounces[j].state = "fulfilled"

\* -------------------------------------------------------- Preview claims
\* the attempt the latest settlement belonged to, if any
SettledAttempt == attempts[previewLast.attempt]
IsAttemptSettle == previewLast.op = "settle" /\ previewLast.attempt # Null

\* C21: lastValue changes only when the caught collection of a preview()
\* attempt is fulfilled, and then becomes that attempt's value; an attempt
\* that ends rejected leaves lastValue as it was.
C21_LastGoodValue ==
    /\ lastValue # previewLast.preLast =>
          /\ IsAttemptSettle
          /\ SettledAttempt.state = "fulfilled"
          /\ lastValue = SettledAttempt.value
    /\ (IsAttemptSettle /\ SettledAttempt.state = "rejected") =>
          lastValue = previewLast.preLast

C21_Witness ==
    /\ IsAttemptSettle
    /\ SettledAttempt.state = "rejected"
    /\ previewLast.attempt = previewCurrent
    /\ lastValue # NullValue
    /\ lastValue = previewLast.preLast

\* C22: when the child's collection rejects with E during preview(), a
\* fallback that returns makes the attempt a success with value catch(E)
\* (lastValue becomes catch(E) if the attempt is the current one); without
\* fallback the attempt rejects with E itself and lastValue stays.
C22_Fallback ==
    (IsAttemptSettle /\ promises[previewLast.p].state = "rejected") =>
        /\ previewLast.fallback = "value" =>
              /\ SettledAttempt.state = "fulfilled"
              /\ SettledAttempt.value = Caught(promises[previewLast.p].value)
              /\ previewLast.attempt = previewLast.preCurrent =>
                     lastValue = Caught(promises[previewLast.p].value)
        /\ previewLast.fallback = "none" =>
              /\ SettledAttempt.state = "rejected"
              /\ SettledAttempt.value = promises[previewLast.p].value
              /\ lastValue = previewLast.preLast

C22_Witness ==
    /\ IsAttemptSettle
    /\ promises[previewLast.p].state = "rejected"
    /\ previewLast.fallback = "value"
    /\ previewLast.attempt = previewCurrent
    /\ lastValue = Caught(promises[previewLast.p].value)
    /\ lastValue # previewLast.preLast

\* C23: the direct collect() returns the promise the sub-context's collect()
\* returned (and throws what it threw), changes neither lastValue nor the
\* current caught collection, and its promise is never intercepted: it
\* settles with the child's own value or error whatever preview() does.
C23_DirectPassThrough ==
    /\ previewLast.op = "collect" =>
          LET e == subCollects[Len(subCollects)]
          IN  /\ previewLast.threw = e.threw
              /\ previewLast.ret = e.ret
              /\ previewCurrent = previewLast.preCurrent
              /\ lastValue = previewLast.preLast
    /\ \A k \in DOMAIN subCollects :
          (subCollects[k].by = Null /\ subCollects[k].ret # Null) =>
              LET p == subCollects[k].ret
              IN  /\ AttemptOf(attempts, p) = Null
                  /\ promises[p].state = "fulfilled" => promises[p].value = AtomVal(ValueOf(p))
                  /\ promises[p].state = "rejected" => promises[p].value = AtomVal(ErrorOf(p))

C23_Witness ==
    /\ previewLast.op = "settle"
    /\ previewLast.attempt = Null
    /\ promises[previewLast.p].state = "rejected"
    /\ promises[previewLast.p].value = AtomVal(ErrorOf(previewLast.p))
    /\ \E k \in DOMAIN attempts :
          attempts[k].state = "fulfilled" /\ attempts[k].value.kind = "caught"
    /\ lastValue = previewLast.preLast

\* C29: when the caught collection of an attempt settles after a later
\* preview() replaced it as the current one, lastValue and the current one
\* stay as they were; lastValue changes only for the attempt started last.
C29_StalePreviewIgnored ==
    /\ (IsAttemptSettle /\ previewLast.attempt # previewLast.preCurrent) =>
          /\ lastValue = previewLast.preLast
          /\ previewCurrent = previewLast.preCurrent
    /\ lastValue # previewLast.preLast =>
          /\ previewLast.attempt = Len(attempts)
          /\ previewLast.attempt = previewCurrent

C29_Witness ==
    /\ IsAttemptSettle
    /\ previewLast.attempt < previewLast.preCurrent
    /\ SettledAttempt.state = "fulfilled"
    /\ attempts[previewCurrent].state = "pending"
    /\ lastValue = previewLast.preLast
    /\ lastValue # SettledAttempt.value

\* ----------------------------------------------------------- Root claims
\* the collections of the contents that _submit started
Submitted == {p \in DOMAIN promises : p # RootResult}
InFlight == {p \in Submitted : promises[p].state = "pending"}

\* C25: _submit throws 'already resolved' once a collection has succeeded
\* and 'already submitted' while one is pending, without calling the child;
\* otherwise it calls the child's collect(); a rejection clears the pending
\* state. At most one collection is in flight, none after a success.
C25_SubmitStateMachine ==
    /\ rootLast.op = "submit" =>
          /\ rootLast.preResolved =>
                 rootLast.threw = ErrAlreadyResolved /\ Len(subCollects) = rootLast.preCalls
          /\ (~rootLast.preResolved /\ rootLast.preCurrent # Null) =>
                 /\ rootLast.threw = ErrAlreadySubmitted
                 /\ Len(subCollects) = rootLast.preCalls
                 /\ rootCurrent = rootLast.preCurrent
          /\ (~rootLast.preResolved /\ rootLast.preCurrent = Null) =>
                 /\ rootLast.threw \notin {ErrAlreadyResolved, ErrAlreadySubmitted}
                 /\ Len(subCollects) = rootLast.preCalls + 1
                 /\ rootLast.threw = NoError => rootCurrent = rootLast.ret
    /\ rootLast.op = "settle" =>
          /\ rootCurrent = Null
          /\ isResolved = (rootLast.preResolved \/ promises[rootLast.p].state = "fulfilled")
    /\ Cardinality(InFlight) <= 1
    /\ InFlight = IF rootCurrent = Null THEN {} ELSE {rootCurrent}
    /\ isResolved => InFlight = {}
    /\ Cardinality({p \in Submitted : promises[p].state = "fulfilled"}) <= 1

C25_Witness ==
    /\ rootLast.op = "submit"
    /\ rootLast.threw = NoError
    /\ Len(promises) = 3
    /\ promises[2].state = "rejected"
    /\ rootCurrent = 3

\* C26: collecting the Root returns the promise of the constructor every
\* time and calls no child collect(); that promise is never rejected, and
\* is fulfilled exactly when a submit's collection has succeeded, with the
\* value of that collection.
C26_RootResult ==
    /\ rootLast.op = "collect" =>
          /\ rootLast.threw = NoError
          /\ rootLast.ret = RootResult
          /\ Len(subCollects) = rootLast.preCalls
    /\ promises[RootResult].state # "rejected"
    /\ isResolved <=> promises[RootResult].state = "fulfilled"
    /\ \A p \in Submitted :
          promises[p].state = "fulfilled" =>
              /\ promises[RootResult].state = "fulfilled"
              /\ promises[RootResult].value = promises[p].value

C26_Witness ==
    /\ rootLast.op = "collect"
    /\ rootLast.ret = RootResult
    /\ Len(promises) = 3
    /\ promises[2].state = "rejected"
    /\ promises[3].state = "fulfilled"
    /\ promises[RootResult].state = "fulfilled"
    /\ promises[RootResult].value = promises[3].value

\* -------------------------------------- claims on the Map of the earlier library
\* C24 (as claimed): a collection of the earlier Map is rejected with
\* InputError only once every child collection of its snapshot has settled.
C24_Original ==
    \A c \in Colls :
        (promises[c.outer].state = "rejected" /\ promises[c.outer].value = InputError) =>
            AllSettled(c)

====
